---- MODULE Spec2Model ----
(***************************************************************************)
(* Model of the paginated historical-series fetchers of                    *)
(* crypto-excel-export:                                                    *)
(*   - KuCoinService.get_kline_data_as_dataframe  (backward pagination)    *)
(*   - retry_on_api_error                         (retry wrapper)          *)
(*   - BinanceReadService._validate_symbol, KuCoinService._format_symbol   *)
(*                                                                         *)
(* Time is counted in whole seconds.  A caller's datetime is naive: the    *)
(* integer start_at / end_at is its wall-clock reading.  .timestamp()      *)
(* interprets a naive datetime in the local zone, pd.to_datetime(unit='s') *)
(* yields a naive UTC reading; tz is the local zone's offset from UTC.     *)
(* A k-line row is represented by its first column, the open time in       *)
(* epoch seconds; the six price/volume columns are carried along by the    *)
(* code without influencing control flow or the Timestamp column.          *)
(***************************************************************************)
EXTENDS Integers, Sequences, FiniteSets, TLC

\* ---------------------------------------------------------------- bounds
MaxT == 3        \* unconstrained source: readings and open times in 0..MaxT
MaxRows == 2     \* longest page an unconstrained source returns
MaxReq == 3      \* page requests followed against an unconstrained source
MockMaxT == 8    \* well-behaved source: readings and open times in 0..MockMaxT
PageSize == 2    \* page limit of the well-behaved source (1500 at KuCoin)
Interval == 2    \* candle spacing of the well-behaved source (60 for '1min')
MaxRetries == 3  \* largest max_retries the wrapper is configured with
MaxDelay == 2    \* largest base delay the wrapper is configured with

Times == 0..MaxT
MockTimes == 0..MockMaxT
Grid == {t \in MockTimes : t % Interval = 0}
TzOffsets == {-1, 0, 1}

VARIABLES
    \* --- backward fetch (kucoin_service.py)
    trading_pair,       \* caller's trading-pair string
    start_at, end_at,   \* caller's naive datetimes
    tz,                 \* UTC offset of the local zone
    has_sink,           \* progress_callback is not None
    source,             \* the exchange client's behaviour
    pc,                 \* "init" | "loop" | "done"
    all_data,           \* accumulated rows
    current_end_ts,     \* the cursor
    requests,           \* page requests issued so far: [symbol, endAt, startAt]
    pages,              \* the answers to those requests
    progress_log,       \* fractions handed to progress_callback
    result,             \* the returned DataFrame's Timestamp column
    \* --- retry wrapper (binance_service.py)
    max_retries, delay, \* the decorator's arguments
    func,               \* what the wrapped call does on its 1st, 2nd, ... call
    rpc,                \* "init" | "try" | "done"
    attempt,            \* the for loop's index
    calls,              \* number of calls of func made
    sleeps,             \* arguments of the sleep calls made
    last_exception,
    outcome,            \* how the wrapper ended
    \* --- symbol normalizers (both services)
    sym,                \* the caller's trading-pair string
    canon,              \* the same pair in upper case without padding
    validated,          \* _validate_symbol of sym, of canon, of its own output
    formatted,          \* _format_symbol of sym, of canon, of its own output
    \* --- forward fetch (binance_service.py)
    b_symbol,           \* the symbol get_historical_data_as_dataframe is given
    client,             \* what the client's 1st, 2nd, ... history call does
    b_result            \* how get_historical_data_as_dataframe ended

fetchVars == <<trading_pair, start_at, end_at, tz, has_sink, source, pc, all_data,
               current_end_ts, requests, pages, progress_log, result>>

retryVars == <<max_retries, delay, func, rpc, attempt, calls, sleeps,
               last_exception, outcome>>

normVars == <<sym, canon, validated, formatted>>

binanceVars == <<b_symbol, client, b_result>>

vars == <<fetchVars, retryVars, normVars, binanceVars>>

\* ------------------------------------------------------- pure helpers
Last(s) == s[Len(s)]

\* datetime.timestamp() of a naive datetime, truncated by int()
Timestamp(naive) == naive - tz

start_at_ts == Timestamp(start_at)
end_at_ts == Timestamp(end_at)
total_duration == end_at_ts - start_at_ts

\* pd.to_datetime(unit='s'): epoch seconds to a naive UTC reading
ToDatetime(t) == t

\* Mutant: progress measured from the wrong end of the range
Progress_fromStart(elapsed, total) ==
    [num |-> IF total - elapsed >= total THEN total ELSE total - elapsed,
     den |-> total]

\* min(elapsed_duration / total_duration, 1.0) as a fraction num/den, den > 0
Progress(elapsed, total) ==
    [num |-> IF elapsed >= total THEN total ELSE elapsed, den |-> total]

\* Mutant: the drop_duplicates call is missing
DropDuplicates_none(s) == s

\* df.drop_duplicates(subset=['Timestamp']): keeps the first occurrence
DropDuplicates(s) ==
    LET F[i \in 0..Len(s)] ==
            IF i = 0 THEN <<>>
            ELSE IF \E j \in 1..(i-1) : s[j] = s[i] THEN F[i-1]
                 ELSE Append(F[i-1], s[i])
    IN F[Len(s)]

\* Mutant: the upper half of the range filter is missing
InRange_noUpper(t, lo, hi) == lo <= t

\* df[(Timestamp >= start_at) & (Timestamp <= end_at)]
InRange(t, lo, hi) == lo <= t /\ t <= hi

FilterRange(s, lo, hi) ==
    LET Keep(t) == InRange(t, lo, hi) IN SelectSeq(s, Keep)

\* df.sort_values(by='Timestamp', ascending=True)
InsertSorted(x, s) ==
    LET k == Cardinality({i \in 1..Len(s) : s[i] <= x})
    IN SubSeq(s, 1, k) \o <<x>> \o SubSeq(s, k+1, Len(s))

SortValues(s) ==
    LET F[i \in 0..Len(s)] ==
            IF i = 0 THEN <<>> ELSE InsertSorted(s[i], F[i-1])
    IN F[Len(s)]

\* lines 97-116: the assembly of the accumulated rows
Assemble(data, lo, hi) ==
    IF data = <<>> THEN <<>>
    ELSE LET dedup == DropDuplicates(data)
             stamped == [i \in 1..Len(dedup) |-> ToDatetime(dedup[i])]
         IN SortValues(FilterRange(stamped, lo, hi))

\* ------------------------------------------------------------ sources
\* All sequences over S of length at most n
SeqsUpTo(S, n) == UNION {[1..k -> S] : k \in 0..n}

\* The k largest elements of a finite set of integers, newest first
RECURSIVE Descending(_, _)
Descending(S, k) ==
    IF S = {} \/ k = 0 THEN <<>>
    ELSE LET m == CHOOSE x \in S : \A y \in S : y <= x
         IN <<m>> \o Descending(S \ {m}, k - 1)

\* A well-behaved exchange: the newest PageSize candles it holds between
\* startAt and endAt, newest first
MockPage(held, endAt, startAt) ==
    Descending({t \in held : startAt <= t /\ t <= endAt}, PageSize)

AnySource == [kind |-> "any", held |-> {}]
MockSources == [kind : {"mock"}, held : SUBSET Grid]

\* Mutant: the loop test admits cursor = start
LoopTest_ge(cursor, start) == cursor >= start

\* line 59: while current_end_ts > start_at_ts
LoopTest(cursor, start) == cursor > start

\* line 84: if oldest_ts_in_chunk <= start_at_ts: break
StopTest(oldest, start) == oldest <= start

\* Mutant: the cursor is not moved past the oldest row
NextCursor_same(oldest) == oldest

\* line 88: current_end_ts = oldest_ts_in_chunk - 1
NextCursor(oldest) == oldest - 1

\* --------------------------------------------------- symbol normalizers
\* A string is the sequence of its characters
Lowers == <<"a", "b", "c", "d", "e", "f", "g", "h", "i", "j", "k", "l", "m", "n", "o", "p", "q", "r", "s", "t", "u", "v", "w", "x", "y", "z">>
Uppers == <<"A", "B", "C", "D", "E", "F", "G", "H", "I", "J", "K", "L", "M", "N", "O", "P", "Q", "R", "S", "T", "U", "V", "W", "X", "Y", "Z">>

\* str.upper(), character by character
UpperChar(c) ==
    IF \E i \in 1..Len(Lowers) : Lowers[i] = c
      THEN Uppers[CHOOSE i \in 1..Len(Lowers) : Lowers[i] = c]
      ELSE c

Upper(str) == [i \in 1..Len(str) |-> UpperChar(str[i])]

\* str.lower(), used to build mixed-case inputs
LowerChar(c) ==
    IF \E i \in 1..Len(Uppers) : Uppers[i] = c
      THEN Lowers[CHOOSE i \in 1..Len(Uppers) : Uppers[i] = c]
      ELSE c

Lower(str) == [i \in 1..Len(str) |-> LowerChar(str[i])]

IsSpace(c) == c = " "

\* str.strip(): leading and trailing whitespace removed
Strip(str) ==
    LET idx == {i \in 1..Len(str) : ~IsSpace(str[i])}
    IN IF idx = {} THEN <<>>
       ELSE SubSeq(str, CHOOSE i \in idx : \A j \in idx : i <= j,
                        CHOOSE i \in idx : \A j \in idx : j <= i)

\* str.endswith(suffix)
EndsWith(str, suffix) ==
    /\ Len(suffix) <= Len(str)
    /\ SubSeq(str, Len(str) - Len(suffix) + 1, Len(str)) = suffix

\* str[:-n] and str[-n:] for 0 < n <= len(str)
DropLast(str, n) == SubSeq(str, 1, Len(str) - n)
TakeLast(str, n) == SubSeq(str, Len(str) - n + 1, Len(str))

Value(str) == [err |-> FALSE, val |-> str]
ValueError == [err |-> TRUE, val |-> <<>>]

\* binance_service.py lines 80-86
ValidateSymbol(symbol) ==
    IF symbol = <<>> THEN ValueError
    ELSE Value(Strip(Upper(symbol)))

\* kucoin_service.py line 31
bases == <<<<"U", "S", "D", "T">>, <<"U", "S", "D", "C">>, <<"T", "U", "S", "D">>, <<"B", "U", "S", "D">>, <<"B", "T", "C">>, <<"E", "T", "H">>, <<"K", "C", "S">>>>

\* Mutant: a quote asset matches even when nothing is left in front of it
FormatSymbol_noStrict(input) ==
    LET pair == Upper(input)
        hits == {i \in 1..Len(bases) : EndsWith(pair, bases[i])}
    IN IF hits # {}
         THEN LET base == bases[CHOOSE i \in hits : \A j \in hits : i <= j]
              IN Value(DropLast(pair, Len(base)) \o <<"-">> \o base)
         ELSE IF Len(pair) > 3
           THEN Value(DropLast(pair, 3) \o <<"-">> \o TakeLast(pair, 3))
           ELSE Value(pair)

\* kucoin_service.py lines 28-37
FormatSymbol(input) ==
    LET pair == Upper(input)
        hits == {i \in 1..Len(bases) :
                    EndsWith(pair, bases[i]) /\ Len(pair) > Len(bases[i])}
    IN IF hits # {}
         THEN LET base == bases[CHOOSE i \in hits : \A j \in hits : i <= j]
              IN Value(DropLast(pair, Len(base)) \o <<"-">> \o base)
         ELSE IF Len(pair) > 3
           THEN Value(DropLast(pair, 3) \o <<"-">> \o TakeLast(pair, 3))
           ELSE Value(pair)

\* A normalizer applied to its own output (an error stays the error)
Again(normalize(_), out) == IF out.err THEN out ELSE normalize(out.val)

\* Trading pairs the normalizers are exercised with: base asset \o quote
BaseAssets == {<<>>, <<"E", "T", "H">>, <<"A", "D", "A">>, <<"B", "T", "C">>, <<"X">>, <<"B", "T", "C", "-">>, <<"L", "U", "N", "A">>}
QuoteAssets == {<<>>, <<"U", "S", "D", "T">>, <<"U", "S", "D", "C">>, <<"T", "U", "S", "D">>, <<"B", "U", "S", "D">>, <<"B", "T", "C">>, <<"E", "T", "H">>, <<"K", "C", "S">>, <<"E", "U", "R">>, <<"D", "A", "I">>, <<"-", "U", "S", "D", "T">>, <<"P", "Y">>}
Paddings == {<<>>, <<" ">>}

Casings(str) ==
    {str, Lower(str),
     [i \in 1..Len(str) |-> IF i % 2 = 1 THEN LowerChar(str[i]) ELSE str[i]]}

NotRun == <<>>

NormIdle ==
    /\ sym = <<>>
    /\ canon = <<>>
    /\ validated = NotRun
    /\ formatted = NotRun

NormStart ==
    /\ \E b \in BaseAssets, qt \in QuoteAssets :
         /\ canon = b \o qt
         /\ \E c \in Casings(b \o qt), l \in Paddings, r \in Paddings :
              sym = l \o c \o r
    /\ validated = NotRun
    /\ formatted = NotRun

Runs(normalize(_)) ==
    [out |-> normalize(sym),
     ofCanon |-> normalize(canon),
     again |-> Again(normalize, normalize(sym))]

\* BinanceReadService._validate_symbol on the caller's string
Validate ==
    /\ validated = NotRun
    /\ validated' = Runs(ValidateSymbol)
    /\ UNCHANGED <<sym, canon, formatted>>
    /\ UNCHANGED <<fetchVars, retryVars, binanceVars>>

\* KuCoinService._format_symbol on the caller's string
Format ==
    /\ formatted = NotRun
    /\ formatted' = Runs(FormatSymbol)
    /\ UNCHANGED <<sym, canon, validated>>
    /\ UNCHANGED <<fetchVars, retryVars, binanceVars>>

NextNorm == Validate \/ Format

\* ------------------------------------------------------ retry wrapper
\* An exception instance: its class and the call of func that raised it
Exc(cls, id) == [cls |-> cls, id |-> id]
None == Exc("None", 0)

\* What one call of func can do: return, or raise an exception of a class
Behaviours == {"return", "RequestException", "BinanceAPIException",
               "ValueError", "KeyboardInterrupt"}

\* Mutant: every exception class is caught by the retrying clause
IsTransient_all(cls) == cls # "return"

\* line 47: except (RequestException, BinanceAPIException)
IsTransient(cls) == cls \in {"RequestException", "BinanceAPIException"}

\* line 51: delay * (2 ** attempt)
Backoff(base, n) == base * (2 ^ n)

\* raise e: raising None is a TypeError
RaiseOf(e) == IF e = None THEN Exc("TypeError", 0) ELSE e

Returned(id) == [kind |-> "returned", exc |-> None, value |-> id]
RaisedOut(e) == [kind |-> "raised", exc |-> RaiseOf(e), value |-> 0]
Pending == [kind |-> "none", exc |-> None, value |-> 0]

RetryIdle ==
    /\ max_retries = 0
    /\ delay = 0
    /\ func = <<>>
    /\ rpc = "idle"
    /\ attempt = 0
    /\ calls = 0
    /\ sleeps = <<>>
    /\ last_exception = None
    /\ outcome = Pending

RetryStart ==
    /\ max_retries \in 0..MaxRetries
    /\ delay \in 1..MaxDelay
    /\ func \in [1..MaxRetries -> Behaviours]
    /\ rpc = "init"
    /\ attempt = 0
    /\ calls = 0
    /\ sleeps = <<>>
    /\ last_exception = None
    /\ outcome = Pending

\* lines 44, 56-57: the for loop moves on to index n, or is exhausted and
\* the wrapper raises last_exception
LoopTo(n, last) ==
    IF n < max_retries
      THEN rpc' = "try" /\ attempt' = n /\ outcome' = outcome
      ELSE rpc' = "done" /\ attempt' = attempt /\ outcome' = RaisedOut(last)

\* lines 42-44: the wrapper is entered
Wrapper ==
    /\ rpc = "init"
    /\ last_exception' = None
    /\ LoopTo(0, None)
    /\ UNCHANGED <<max_retries, delay, func, calls, sleeps>>
    /\ UNCHANGED <<fetchVars, normVars, binanceVars>>

\* lines 45-46: func returns
AttemptReturns ==
    /\ rpc = "try"
    /\ func[calls + 1] = "return"
    /\ calls' = calls + 1
    /\ rpc' = "done"
    /\ outcome' = Returned(calls + 1)
    /\ UNCHANGED <<max_retries, delay, func, attempt, sleeps, last_exception>>
    /\ UNCHANGED <<fetchVars, normVars, binanceVars>>

\* Mutant: the backoff sleep is not skipped after the last attempt
AttemptTransient_alwaysSleep ==
    /\ rpc = "try"
    /\ IsTransient(func[calls + 1])
    /\ LET e == Exc(func[calls + 1], calls + 1)
       IN /\ calls' = calls + 1
          /\ last_exception' = e
          /\ sleeps' = Append(sleeps, Backoff(delay, attempt))
          /\ LoopTo(attempt + 1, e)
    /\ UNCHANGED <<max_retries, delay, func>>
    /\ UNCHANGED <<fetchVars, normVars, binanceVars>>

\* lines 47-51: func raises a transient error
AttemptTransient ==
    /\ rpc = "try"
    /\ IsTransient(func[calls + 1])
    /\ LET e == Exc(func[calls + 1], calls + 1)
       IN /\ calls' = calls + 1
          /\ last_exception' = e
          /\ sleeps' = IF attempt < max_retries - 1
                         THEN Append(sleeps, Backoff(delay, attempt))
                         ELSE sleeps
          /\ LoopTo(attempt + 1, e)
    /\ UNCHANGED <<max_retries, delay, func>>
    /\ UNCHANGED <<fetchVars, normVars, binanceVars>>

\* lines 52-54: func raises anything else; it propagates
AttemptOther ==
    /\ rpc = "try"
    /\ func[calls + 1] # "return"
    /\ ~IsTransient(func[calls + 1])
    /\ calls' = calls + 1
    /\ rpc' = "done"
    /\ outcome' = RaisedOut(Exc(func[calls + 1], calls + 1))
    /\ UNCHANGED <<max_retries, delay, func, attempt, sleeps, last_exception>>
    /\ UNCHANGED <<fetchVars, normVars, binanceVars>>

NextRetry == Wrapper \/ AttemptReturns \/ AttemptTransient \/ AttemptOther

\* ------------------------------------------------------- backward fetch
\* Trading pairs a fetch is called with
TradingPairs == {<<>>, <<"B", "T", "C", "U", "S", "D", "T">>}

FetchIdle ==
    /\ trading_pair = <<>>
    /\ start_at = 0
    /\ end_at = 0
    /\ tz = 0
    /\ has_sink = FALSE
    /\ source = AnySource
    /\ pc = "idle"
    /\ all_data = <<>>
    /\ current_end_ts = 0
    /\ requests = <<>>
    /\ pages = <<>>
    /\ progress_log = <<>>
    /\ result = <<>>

FetchStart ==
    /\ \/ /\ source = AnySource
          /\ trading_pair \in TradingPairs
          /\ start_at \in Times /\ end_at \in Times
       \/ /\ source \in MockSources
          /\ trading_pair \in TradingPairs \ {<<>>}
          /\ start_at \in MockTimes /\ end_at \in MockTimes
    /\ tz \in TzOffsets
    /\ has_sink \in BOOLEAN
    /\ pc = "init"
    /\ all_data = <<>>
    /\ current_end_ts = 0
    /\ requests = <<>>
    /\ pages = <<>>
    /\ progress_log = <<>>
    /\ result = <<>>

\* -------------------------------------------------------- forward fetch
BinanceMaxRetries == 3   \* @retry_on_api_error(max_retries=3)
DefaultDelay == 1        \* delay: float = 1.0

\* What one call of the client's get_historical_klines can do
ClientBehaviours == {"rows", "empty", "RequestException",
                     "BinanceAPIException", "KeyboardInterrupt"}

BinanceSymbols == {<<>>, <<" ">>, <<"B", "T", "C", "U", "S", "D", "T">>, <<"b", "t", "c", "u", "s", "d", "t">>}

NoResult == [kind |-> "none", df |-> "none", exc |-> None]
DataFrame(df) == [kind |-> "returned", df |-> df, exc |-> None]
Propagated(e) == [kind |-> "raised", df |-> "none", exc |-> e]

\* lines 110-123: one call of the wrapped get_historical_klines validates
\* the symbol, then asks the client, then converts the rows
KlinesCall(sym_in, does) ==
    IF ValidateSymbol(sym_in).err THEN "ValueError"
    ELSE IF does \in {"rows", "empty"} THEN "return"
    ELSE does

\* Calls of the client made so far: a call of get_historical_klines reaches
\* the client (line 115) only when _validate_symbol (line 113) has passed
NetworkCalls == IF ValidateSymbol(b_symbol).err THEN 0 ELSE calls

\* except Exception: the classes it catches
IsException(cls) == cls # "KeyboardInterrupt"

BinanceIdle ==
    /\ b_symbol = <<>>
    /\ client = <<>>
    /\ b_result = NoResult

\* lines 125-129: get_historical_data_as_dataframe is called and enters the
\* decorated get_historical_klines
BinanceStart ==
    /\ b_symbol \in BinanceSymbols
    /\ client \in [1..BinanceMaxRetries -> ClientBehaviours]
    /\ b_result = NoResult
    /\ max_retries = BinanceMaxRetries
    /\ delay = DefaultDelay
    /\ func = [i \in 1..BinanceMaxRetries |-> KlinesCall(b_symbol, client[i])]
    /\ rpc = "init"
    /\ attempt = 0
    /\ calls = 0
    /\ sleeps = <<>>
    /\ last_exception = None
    /\ outcome = Pending

\* lines 128-142: what get_historical_data_as_dataframe makes of the way
\* get_historical_klines ended
AsDataFrame ==
    /\ rpc = "done"
    /\ b_result = NoResult
    /\ b_result' =
         IF outcome.kind = "returned"
           THEN IF client[outcome.value] = "empty"
                  THEN DataFrame("empty")
                  ELSE DataFrame("rows")
           ELSE IF IsException(outcome.exc.cls)
                  THEN DataFrame("empty")
                  ELSE Propagated(outcome.exc)
    /\ UNCHANGED <<b_symbol, client>>
    /\ UNCHANGED <<fetchVars, retryVars, normVars>>

NextBinance ==
    Wrapper \/ AttemptReturns \/ AttemptTransient \/ AttemptOther \/ AsDataFrame

Init == FetchStart /\ RetryIdle /\ NormIdle /\ BinanceIdle

InitRetry == FetchIdle /\ RetryStart /\ NormIdle /\ BinanceIdle

InitNorm == FetchIdle /\ RetryIdle /\ NormStart /\ BinanceIdle

InitBinance == FetchIdle /\ BinanceStart /\ NormIdle

\* lines 97-116 once the while loop is left with the rows in data
Return(data) ==
    /\ pc' = "done"
    /\ result' = Assemble(data, start_at, end_at)

\* lines 44-59: entry, cursor initialisation, first evaluation of the loop test
Call ==
    /\ pc = "init"
    /\ current_end_ts' = end_at_ts
    /\ IF LoopTest(end_at_ts, start_at_ts)
         THEN pc' = "loop" /\ result' = result
         ELSE Return(all_data)
    /\ UNCHANGED <<trading_pair, start_at, end_at, tz, has_sink, source, all_data,
                   requests, pages, progress_log>>
    /\ UNCHANGED <<retryVars, normVars, binanceVars>>

\* line 44: symbol = self._format_symbol(trading_pair)
symbol == FormatSymbol(trading_pair).val

TheRequest == [symbol |-> symbol, endAt |-> current_end_ts, startAt |-> start_at_ts]

\* An answer of the client: the rows of a page, or a raised exception
Page(rows) == [err |-> FALSE, rows |-> rows]
Raised == [err |-> TRUE, rows |-> <<>>]

\* What the client can answer to TheRequest
Responses ==
    IF source.kind = "mock"
      THEN {Page(MockPage(source.held, current_end_ts, start_at_ts))}
      ELSE {Page(r) : r \in SeqsUpTo(Times, MaxRows)} \cup {Raised}

CanRequest ==
    /\ pc = "loop"
    /\ source.kind = "any" => Len(requests) < MaxReq

\* lines 62-71: the request returns an empty page
PageEmpty ==
    /\ CanRequest
    /\ Page(<<>>) \in Responses
    /\ requests' = Append(requests, TheRequest)
    /\ pages' = Append(pages, Page(<<>>))
    /\ Return(all_data)
    /\ UNCHANGED <<trading_pair, start_at, end_at, tz, has_sink, source, all_data,
                   current_end_ts, progress_log>>
    /\ UNCHANGED <<retryVars, normVars, binanceVars>>

\* Mutant: the except clause continues instead of breaking
PageError_continue ==
    /\ CanRequest
    /\ Raised \in Responses
    /\ requests' = Append(requests, TheRequest)
    /\ pages' = Append(pages, Raised)
    /\ UNCHANGED <<trading_pair, start_at, end_at, tz, has_sink, source, all_data,
                   current_end_ts, progress_log, pc, result>>
    /\ UNCHANGED <<retryVars, normVars, binanceVars>>

\* lines 62-67, 92-95: the request raises
PageError ==
    /\ CanRequest
    /\ Raised \in Responses
    /\ requests' = Append(requests, TheRequest)
    /\ pages' = Append(pages, Raised)
    /\ Return(all_data)
    /\ UNCHANGED <<trading_pair, start_at, end_at, tz, has_sink, source, all_data,
                   current_end_ts, progress_log>>
    /\ UNCHANGED <<retryVars, normVars, binanceVars>>

\* lines 73-90 and the next evaluation of the loop test at line 59
PageRows ==
    /\ CanRequest
    /\ \E response \in Responses \ {Page(<<>>), Raised} :
        LET kline_chunk == response.rows
            oldest_ts_in_chunk == Last(kline_chunk)
            elapsed_duration == end_at_ts - oldest_ts_in_chunk
            data == all_data \o kline_chunk
        IN /\ requests' = Append(requests, TheRequest)
           /\ pages' = Append(pages, response)
           /\ all_data' = data
           /\ progress_log' =
                IF has_sink
                  THEN Append(progress_log, Progress(elapsed_duration, total_duration))
                  ELSE progress_log
           /\ IF StopTest(oldest_ts_in_chunk, start_at_ts)
                THEN /\ current_end_ts' = current_end_ts
                     /\ Return(data)
                ELSE /\ current_end_ts' = NextCursor(oldest_ts_in_chunk)
                     /\ IF LoopTest(NextCursor(oldest_ts_in_chunk), start_at_ts)
                          THEN pc' = "loop" /\ result' = result
                          ELSE Return(data)
    /\ UNCHANGED <<trading_pair, start_at, end_at, tz, has_sink, source>>
    /\ UNCHANGED <<retryVars, normVars, binanceVars>>

Next == Call \/ PageEmpty \/ PageError \/ PageRows

Spec == Init /\ [][Next]_vars

SpecRetry == InitRetry /\ [][NextRetry]_vars

SpecNorm == InitNorm /\ [][NextNorm]_vars

SpecBinance == InitBinance /\ [][NextBinance]_vars

\* The declared transient set, as the specification of the wrapper names it
IsTransientClass(cls) == cls = "RequestException" \/ cls = "BinanceAPIException"

\* ====================================================== backward fetch
StrictlyIncreasing(s) == \A i, j \in 1..Len(s) : i < j => s[i] < s[j]

HasRepeats(s) == \E i, j \in 1..Len(s) : i < j /\ s[i] = s[j]

Elems(s) == {s[i] : i \in 1..Len(s)}

Ceil(n, d) == (n + d - 1) \div d

\* C1: whatever rows the pages held (overlaps, repeated open times), the
\* Series a backward fetch returns is strictly increasing by open time,
\* hence has no two rows with the same open time.
C1_Ordered == pc = "done" => StrictlyIncreasing(result)

C1_Witness ==
    /\ pc = "done"
    /\ Len(pages) >= 2
    /\ HasRepeats(all_data)
    /\ \E i \in 1..Len(all_data) - 1 : all_data[i] < all_data[i+1]
    /\ Len(result) >= 2

\* C2: every open time of the returned Series lies between the caller's
\* start and end, inclusive, also when the source returned rows outside.
C2_Contained ==
    pc = "done" => \A i \in 1..Len(result) : start_at <= result[i] /\ result[i] <= end_at

C2_Witness ==
    /\ pc = "done"
    /\ result # <<>>
    /\ \E t \in Elems(all_data) : ToDatetime(t) > end_at
    /\ \E t \in Elems(all_data) : ToDatetime(t) < start_at

\* C3 as stated: every request has startAt = start and start < endAt <= end.
C3_Original ==
    trading_pair # <<>> =>
        \A i \in 1..Len(requests) :
            /\ requests[i].startAt = start_at_ts
            /\ start_at_ts < requests[i].endAt
            /\ requests[i].endAt <= end_at_ts

\* C3 amended: every request has startAt = start and endAt > start; the
\* first endAt is end, each later endAt is one less than the open time of
\* the last row of the page before it (the source decides whether that
\* stays at or below end).
C3_Bounds ==
    \A i \in 1..Len(requests) :
        /\ requests[i].startAt = start_at_ts
        /\ start_at_ts < requests[i].endAt
        /\ requests[i].endAt =
              IF i = 1 THEN end_at_ts ELSE Last(pages[i-1].rows) - 1

C3_Witness ==
    /\ Len(requests) >= 2
    /\ \E i \in 1..Len(requests) : requests[i].endAt > end_at_ts
    /\ \E i \in 1..Len(requests) : requests[i].endAt = start_at_ts + 1

\* Candles the well-behaved source holds in the requested range
HeldInRange == {t \in source.held : start_at_ts <= t /\ t <= end_at_ts}

\* C4 as stated: against the well-behaved source the loop ends after exactly
\* ceil(range / page_size) requests.
C4_Original ==
    (pc = "done" /\ source.kind = "mock")
        => Len(requests) = Ceil(Cardinality(HeldInRange), PageSize)

\* C4 amended: for start < end and candles at least two seconds apart, the
\* loop ends after ceil(range / page_size) requests when the source holds a
\* candle at start or start + 1, and after one more request, answered by
\* the empty page, otherwise.
C4_Requests ==
    (pc = "done" /\ source.kind = "mock" /\ start_at_ts < end_at_ts)
        => Len(requests) =
             Ceil(Cardinality(HeldInRange), PageSize)
             + (IF \E t \in source.held : t \in {start_at_ts, start_at_ts + 1}
                  THEN 0 ELSE 1)

C4_Witness ==
    /\ pc = "done"
    /\ source.kind = "mock"
    /\ Cardinality(HeldInRange) > PageSize
    /\ Len(requests) = Ceil(Cardinality(HeldInRange), PageSize) + 1
    /\ Last(pages) = Page(<<>>)

\* C7: a request that raises ends the fetch at once: it is the last request,
\* the fetch has returned, and the Series holds exactly the in-range open
\* times of the pages before it, in ascending order.
C7_PartialOnError ==
    \A k \in 1..Len(pages) :
        pages[k].err =>
            /\ k = Len(pages)
            /\ Len(requests) = k
            /\ pc = "done"
            /\ StrictlyIncreasing(result)
            /\ Elems(result) =
                 {t \in UNION {Elems(pages[i].rows) : i \in 1..(k-1)} :
                     start_at <= t /\ t <= end_at}

C7_Witness ==
    /\ Len(pages) >= 2
    /\ Last(pages).err
    /\ result # <<>>
    /\ pc = "done"

\* C8: against the well-behaved source the sink is called once per non-empty
\* page, the fractions never decrease, and the last one is 1.0 when the loop
\* stopped because the oldest row reached start.
C8_Progress ==
    (source.kind = "mock" /\ has_sink) =>
        /\ Len(progress_log) = Cardinality({i \in 1..Len(pages) : pages[i].rows # <<>>})
        /\ \A i, j \in 1..Len(progress_log) :
              i <= j => progress_log[i].num * progress_log[j].den
                          <= progress_log[j].num * progress_log[i].den
        /\ (pc = "done" /\ pages # <<>> /\ Last(pages).rows # <<>>
               /\ Last(Last(pages).rows) <= start_at_ts)
             => Last(progress_log).num = Last(progress_log).den

C8_Witness ==
    /\ source.kind = "mock"
    /\ has_sink
    /\ pc = "done"
    /\ Len(progress_log) >= 3
    /\ progress_log[1].num < progress_log[2].num
    /\ Last(progress_log).num = Last(progress_log).den

\* C9 as stated: every fraction handed to the sink lies in [0, 1].
C9_Original ==
    trading_pair # <<>> =>
        \A i \in 1..Len(progress_log) :
            /\ progress_log[i].den > 0
            /\ 0 <= progress_log[i].num
            /\ progress_log[i].num <= progress_log[i].den

\* ======================================================= retry wrapper
AlwaysTransient == \A i \in 1..MaxRetries : IsTransientClass(func[i])

\* C5 as stated: a call that raises a transient error every time is made
\* exactly max_retries times, the sleep before call i+1 is delay * 2^i, and
\* the wrapper then raises the last transient error it caught.
C5_Original ==
    (rpc = "done" /\ AlwaysTransient) =>
        /\ calls = max_retries
        /\ \A i \in 0..(calls - 2) :
              Len(sleeps) >= i + 1 /\ sleeps[i + 1] = delay * (2 ^ i)
        /\ outcome.kind = "raised"
        /\ IsTransientClass(outcome.exc.cls)
        /\ outcome.exc = Exc(func[max_retries], max_retries)

\* C6: an exception outside the transient set ends the wrapper at the call
\* that raised it: no later call, no sleep after it, and that exception is
\* what the wrapper raises.
C6_Propagates ==
    \A k \in 1..calls :
        (func[k] # "return" /\ ~IsTransientClass(func[k])) =>
            /\ calls = k
            /\ rpc = "done"
            /\ Len(sleeps) = k - 1
            /\ outcome = [kind |-> "raised", exc |-> Exc(func[k], k), value |-> 0]

C6_Witness ==
    /\ rpc = "done"
    /\ calls = 2
    /\ max_retries = 3
    /\ func[2] = "ValueError"
    /\ outcome.kind = "raised"

\* ================================================== symbol normalizers
Idempotent(run) == run.again = run.out

SameAsCanon(run) == run.out = run.ofCanon

\* C10 as stated: for both normalizers, normalizing a normalized symbol
\* changes nothing, and inputs that differ only in letter case or in
\* leading/trailing whitespace normalize alike.
C10_Original ==
    /\ (validated # NotRun /\ sym # <<>>) =>
          Idempotent(validated) /\ SameAsCanon(validated)
    /\ (formatted # NotRun /\ sym # <<>>) =>
          Idempotent(formatted) /\ SameAsCanon(formatted)

\* The upper-cased input ends with the i-th known quote asset and has at
\* least one character in front of it
StrictSuffix(u, i) ==
    /\ Len(u) > Len(bases[i])
    /\ \A k \in 1..Len(bases[i]) : u[Len(u) - Len(bases[i]) + k] = bases[i][k]

Joined(left, right) == left \o <<"-">> \o right

\* C11: _format_symbol returns remainder-suffix for the first known quote
\* asset that is a strict suffix of the upper-cased input; when none is and
\* the input is longer than 3 characters it returns (all but the last 3)-
\* (last 3); "ethusdt" gives "ETH-USDT" and "ADAUSDT" gives "ADA-USDT".
C11_Format ==
    formatted # NotRun =>
        LET u == Upper(sym)
            out == formatted.out
            n == Len(u)
        IN /\ ~out.err
           /\ \A i \in 1..Len(bases) :
                 (StrictSuffix(u, i) /\ \A j \in 1..(i-1) : ~StrictSuffix(u, j))
                   => out.val = Joined([k \in 1..(n - Len(bases[i])) |-> u[k]], bases[i])
           /\ ((\A i \in 1..Len(bases) : ~StrictSuffix(u, i)) /\ n > 3)
                 => out.val = Joined([k \in 1..(n - 3) |-> u[k]],
                                     [k \in 1..3 |-> u[n - 3 + k]])
           /\ sym = <<"e", "t", "h", "u", "s", "d", "t">> => out.val = <<"E", "T", "H", "-", "U", "S", "D", "T">>
           /\ sym = <<"A", "D", "A", "U", "S", "D", "T">> => out.val = <<"A", "D", "A", "-", "U", "S", "D", "T">>

C11_Witness ==
    /\ formatted # NotRun
    /\ sym = <<"e", "t", "h", "u", "s", "d", "t">>
    /\ formatted.out = Value(<<"E", "T", "H", "-", "U", "S", "D", "T">>)

\* ===================================================== invalid input
\* C12 as stated: on either pipeline a fetch with an empty symbol reaches
\* its caller as an InvalidInput error, after one unretried attempt and
\* without any call of the exchange client.  (Every way out of the backward
\* fetch is a return of a DataFrame, so failing means never being done.)
C12_Original ==
    /\ (b_symbol = <<>> /\ b_result # NoResult) =>
          /\ b_result.kind = "raised"
          /\ b_result.exc.cls = "ValueError"
          /\ calls = 1
          /\ NetworkCalls = 0
    /\ (trading_pair = <<>> /\ start_at < end_at /\ pc # "init") =>
          /\ pc # "done"
          /\ requests = <<>>

\* C13 as stated: a source without rows gives an empty Series and no
\* exception, while a failed fetch (forward: transient errors until the
\* retries are exhausted; backward: an error on the first page) surfaces as
\* a failure and not as that empty Series.
C13_Original ==
    /\ (b_result # NoResult /\ Strip(b_symbol) # <<>>) =>
          /\ (outcome.kind = "returned" /\ client[outcome.value] = "empty")
                => b_result = DataFrame("empty")
          /\ (outcome.kind = "raised" /\ IsTransientClass(outcome.exc.cls))
                => b_result.kind = "raised"
    /\ (pc = "done" /\ trading_pair # <<>>) =>
          /\ pages = <<Page(<<>>)>> => result = <<>>
          /\ pages # <<Raised>>

\* C14 as stated: a backward fetch called with start >= end fails with
\* InvalidInput before any request instead of returning a Series.
C14_Original ==
    (trading_pair # <<>> /\ start_at >= end_at)
        => (pc # "done" /\ requests = <<>>)

\* ================================================ watermark and cursor
MinOf(s) == CHOOSE x \in Elems(s) : \A y \in Elems(s) : x <= y

\* C15 as stated: for every non-empty page, the progress fraction, the stop
\* test and the next cursor are those of the smallest open time in the
\* page, in whatever order its rows come.
C15_Original ==
    \A i \in 1..Len(pages) :
        (trading_pair # <<>> /\ pages[i].rows # <<>>) =>
            LET oldest == MinOf(pages[i].rows)
                elapsed == end_at_ts - oldest
            IN /\ has_sink =>
                     progress_log[i] =
                       [num |-> IF elapsed >= total_duration
                                  THEN total_duration ELSE elapsed,
                        den |-> total_duration]
               /\ oldest <= start_at_ts => (i = Len(pages) /\ pc = "done")
               /\ i < Len(requests) => requests[i+1].endAt = oldest - 1

\* Every row of every page so far is no later than the endAt it answers
RowsWithinBound ==
    \A i \in 1..Len(pages) :
        \A t \in Elems(pages[i].rows) : t <= requests[i].endAt

\* C16: while the source returns no row later than the requested endAt, the
\* cursor strictly decreases from request to request, at most end - start
\* requests are issued, and the loop has ended once that many were.
C16_Terminates ==
    RowsWithinBound =>
        LET span == IF end_at_ts > start_at_ts THEN end_at_ts - start_at_ts ELSE 0
        IN /\ \A i \in 1..(Len(requests) - 1) :
                 requests[i+1].endAt < requests[i].endAt
           /\ Len(requests) <= span
           /\ Len(requests) = span => pc # "loop"

C16_Witness ==
    /\ source.kind = "any"
    /\ RowsWithinBound
    /\ Len(requests) = 3
    /\ end_at_ts - start_at_ts = 3
    /\ \A i \in 1..Len(pages) : pages[i].rows # <<>>
    /\ pc = "done"

\* C17 as stated: every open time among the accumulated rows that lies
\* within the epoch bounds sent to the exchange occurs exactly once in the
\* returned Series.
C17_Original ==
    (pc = "done" /\ trading_pair # <<>>) =>
        \A t \in Elems(all_data) :
            (start_at_ts <= t /\ t <= end_at_ts)
                => Cardinality({i \in 1..Len(result) : result[i] = t}) = 1

\* ======================================================= retry wrapper
\* The first call of func that returns, all calls before it raising
\* transient errors
SucceedsAt(k) ==
    /\ func[k] = "return"
    /\ \A j \in 1..(k-1) : IsTransientClass(func[j])

\* C18: with max_retries >= 1, when func fails transiently k-1 times and
\* then returns on call k <= max_retries, the wrapper returns that result
\* after exactly k calls and k-1 sleeps; when all max_retries calls fail
\* transiently there are max_retries calls and max_retries - 1 sleeps.
C18_Counts ==
    (rpc = "done" /\ max_retries >= 1) =>
        /\ \A k \in 1..max_retries :
              SucceedsAt(k) =>
                  /\ outcome = [kind |-> "returned", exc |-> None, value |-> k]
                  /\ calls = k
                  /\ Len(sleeps) = k - 1
        /\ (\A j \in 1..max_retries : IsTransientClass(func[j])) =>
              /\ outcome.kind = "raised"
              /\ calls = max_retries
              /\ Len(sleeps) = max_retries - 1

C18_Witness ==
    /\ rpc = "done"
    /\ max_retries = 3
    /\ SucceedsAt(3)
    /\ calls = 3
    /\ Len(sleeps) = 2
    /\ outcome.kind = "returned"

====
